---- MODULE Spec2Model ----
(***************************************************************************)
(* Model of app.py (Resume Ranker): main() as a straight-line pipeline     *)
(* Validate -> Extract* -> CheckEnv -> Score* -> Rank, together with the   *)
(* pure functions extract_text_from_pdf, score_resume (strip, float,       *)
(* clamp) and sorted(..., reverse=True).                                   *)
(*                                                                         *)
(* Text is a sequence of one-character strings.  Numbers returned by       *)
(* float() are fixed-point integers: the value v is stored as v * Scale.   *)
(* The reply alphabet has no letters of "inf"/"nan", no exponent and no    *)
(* underscore, so on it float() accepts exactly                            *)
(*    [sign] (digits ["." [digits]] | "." digits)   after trimming.        *)
(***************************************************************************)
EXTENDS Integers, Sequences, FiniteSets, TLC

VARIABLES jd_file, resume_files, pc, i, resumes_texts,
          AZURE_OPENAI_API_KEY, AZURE_OPENAI_ENDPOINT, AZURE_OPENAI_DEPLOYMENT,
          idx, scores, ranked, ui, events,
          llm_out, ret, sort_in, sort_out

vars == <<jd_file, resume_files, pc, i, resumes_texts,
          AZURE_OPENAI_API_KEY, AZURE_OPENAI_ENDPOINT, AZURE_OPENAI_DEPLOYMENT,
          idx, scores, ranked, ui, events,
          llm_out, ret, sort_in, sort_out>>

-----------------------------------------------------------------------------
(* Bounds *)

MaxFiles == 2          \* résumé files in a fully explored upload
MaxReplyLen == 4       \* characters in an LLM reply (pure-function check)
MaxSortLen == 4        \* entries in a list handed to sorted()

(* Program constants *)

MaxResumes == 10       \* len(resume_files) > 10
Sentinel == -1         \* return -1
Lo == 0                \* max(0, ...)
Hi == 100              \* min(100, ...)

-----------------------------------------------------------------------------
(* Fixed-point representation of floats *)

RECURSIVE Pow10(_)
Pow10(n) == IF n = 0 THEN 1 ELSE 10 * Pow10(n - 1)

ScaleDigits == MaxReplyLen - 1
Scale == Pow10(ScaleDigits)

-----------------------------------------------------------------------------
(* str.strip() *)

IsSpace(c) == c = " "

RECURSIVE lstrip(_)
lstrip(s) == IF s # <<>> /\ IsSpace(Head(s)) THEN lstrip(Tail(s)) ELSE s

RECURSIVE rstrip(_)
rstrip(s) ==
    IF s # <<>> /\ IsSpace(s[Len(s)]) THEN rstrip(SubSeq(s, 1, Len(s) - 1)) ELSE s

strip(s) == rstrip(lstrip(s))

-----------------------------------------------------------------------------
(* float(str) *)

Digits == {"0", "1", "2", "3", "5", "7"}

DigitVal(c) ==
    CASE c = "0" -> 0 [] c = "1" -> 1 [] c = "2" -> 2
      [] c = "3" -> 3 [] c = "5" -> 5 [] c = "7" -> 7

RECURSIVE IntVal(_)
IntVal(ds) ==
    IF ds = <<>> THEN 0
    ELSE 10 * IntVal(SubSeq(ds, 1, Len(ds) - 1)) + DigitVal(ds[Len(ds)])

AllDigits(ds) == \A k \in 1..Len(ds) : ds[k] \in Digits

DotPositions(b) == {k \in 1..Len(b) : b[k] = "."}

\* float() of a string: [ok |-> FALSE] stands for ValueError
float(s) ==
    LET t    == strip(s)
        sgn  == t # <<>> /\ Head(t) \in {"-", "+"}
        neg  == t # <<>> /\ Head(t) = "-"
        b    == IF sgn THEN Tail(t) ELSE t
        dots == DotPositions(b)
        d    == IF dots = {} THEN Len(b) + 1 ELSE CHOOSE k \in dots : TRUE
        ip   == SubSeq(b, 1, d - 1)
        fp   == SubSeq(b, d + 1, Len(b))
        good == /\ Cardinality(dots) <= 1
                /\ AllDigits(ip) /\ AllDigits(fp)
                /\ Len(ip) + Len(fp) >= 1
        mag  == IntVal(ip) * Scale + IntVal(fp) * Pow10(ScaleDigits - Len(fp))
    IN  IF good THEN [ok |-> TRUE, val |-> IF neg THEN 0 - mag ELSE mag]
        ELSE [ok |-> FALSE, val |-> 0]

-----------------------------------------------------------------------------
(* max(0, min(100, score)) with Python's min/max: min(a, b) is b when      *)
(* b < a else a; max(a, b) is b when b > a else a.                         *)

py_min(a, b) == IF b < a THEN b ELSE a
py_max(a, b) == IF b > a THEN b ELSE a

\* variant: the lower bound is forgotten
clamp_upper_only(score) == py_min(Hi * Scale, score)

clamp(score) == py_max(Lo * Scale, py_min(Hi * Scale, score))

-----------------------------------------------------------------------------
(* score_resume: the outcome of llm(messages) is either an exception or a  *)
(* response whose content is a string.                                     *)

msg(kind, text, name) == [kind |-> kind, text |-> text, name |-> name]

\* the except branch: st.warning(...) naming the résumé, then return -1
score_failed(resume_name) ==
    [score |-> Sentinel * Scale,
     warnings |-> <<msg("warning", "could not score", resume_name)>>,
     raised |-> FALSE]

\* variant: a reply that does not parse counts as a score of 0, silently
score_resume_zero(out, resume_name) ==
    IF out.raised THEN score_failed(resume_name)
    ELSE
        LET score == float(strip(out.content))
        IN  [score |-> IF score.ok THEN clamp(score.val) ELSE 0,
             warnings |-> <<>>, raised |-> FALSE]

\* variant: no try/except, a failure leaves score_resume as an exception
score_resume_raises(out, resume_name) ==
    LET score == float(strip(out.content))
    IN  IF out.raised \/ ~score.ok
        THEN [score |-> Sentinel * Scale, warnings |-> <<>>, raised |-> TRUE]
        ELSE [score |-> clamp(score.val), warnings |-> <<>>, raised |-> FALSE]

score_resume(out, resume_name) ==
    IF out.raised THEN score_failed(resume_name)
    ELSE
        LET score == float(strip(out.content))
        IN  IF score.ok
            THEN [score |-> clamp(score.val), warnings |-> <<>>, raised |-> FALSE]
            ELSE score_failed(resume_name)

-----------------------------------------------------------------------------
(* extract_text_from_pdf: a file is [name, corrupt, pages]; fitz.open      *)
(* raises on a corrupt stream, otherwise the page texts are concatenated.  *)

RECURSIVE concat_pages(_)
concat_pages(pages) ==
    IF pages = <<>> THEN <<>> ELSE Head(pages) \o concat_pages(Tail(pages))

\* variant: no try/except around fitz.open
extract_text_raises(file) ==
    IF file.corrupt
    THEN [text |-> <<>>, errors |-> <<>>, raised |-> TRUE]
    ELSE [text |-> concat_pages(file.pages), errors |-> <<>>, raised |-> FALSE]

extract_text_from_pdf(file) ==
    IF file.corrupt
    THEN [text |-> <<>>,
          errors |-> <<msg("error", "error reading pdf", "")>>,
          raised |-> FALSE]
    ELSE [text |-> concat_pages(file.pages), errors |-> <<>>, raised |-> FALSE]

-----------------------------------------------------------------------------
(* dict: a sequence of [name, text] in insertion order; assigning to an    *)
(* existing key keeps the key's position and replaces its value.           *)

dict_keys(d) == {d[k].name : k \in 1..Len(d)}

dict_set(d, name, text) ==
    IF name \in dict_keys(d)
    THEN [k \in 1..Len(d) |->
            IF d[k].name = name THEN [name |-> name, text |-> text] ELSE d[k]]
    ELSE Append(d, [name |-> name, text |-> text])

\* the idx-th pair of enumerate(resumes_texts.items()), 1-based
dict_item(d, k) == d[k]

-----------------------------------------------------------------------------
(* sorted(scores, key=lambda x: x["score"], reverse=True): a stable sort,  *)
(* descending by score; equal scores keep their order in the input.        *)

\* variant: an entry goes in front of the entries that have its score
RECURSIVE insert_unstable(_, _)
insert_unstable(x, s) ==
    IF s = <<>> THEN <<x>>
    ELSE IF Head(s).score > x.score
         THEN <<Head(s)>> \o insert_unstable(x, Tail(s))
         ELSE <<x>> \o s

RECURSIVE insert_desc(_, _)
insert_desc(x, s) ==
    IF s = <<>> THEN <<x>>
    ELSE IF Head(s).score >= x.score
         THEN <<Head(s)>> \o insert_desc(x, Tail(s))
         ELSE <<x>> \o s

RECURSIVE sorted_desc(_)
sorted_desc(s) ==
    IF s = <<>> THEN <<>>
    ELSE insert_desc(s[Len(s)], sorted_desc(SubSeq(s, 1, Len(s) - 1)))

\* "N/A" if item["score"] == -1 else f"{item['score']:.2f}"
score_display(score) == IF score = Sentinel * Scale THEN "N/A" ELSE "number"

-----------------------------------------------------------------------------
(* main(): conditions *)

\* variant: off by one
too_many_off(n) == n > MaxResumes + 1

too_many(n) == n > MaxResumes

\* a for loop has another iteration while its 1-based position is in range
\* variant: the loop stops after its first item
more_items_first(k, n) == k <= 1 /\ k <= n

more_items(k, n) == k <= n

truthy(v) == v \notin {"None", ""}

\* variant: any() in place of all()
any_set(key, endpoint, deployment) ==
    truthy(key) \/ truthy(endpoint) \/ truthy(deployment)

all_set(key, endpoint, deployment) ==
    truthy(key) /\ truthy(endpoint) /\ truthy(deployment)

-----------------------------------------------------------------------------
(* Inputs *)

Names == {"a.pdf", "b.pdf", "c.pdf"}

\* a corrupt stream, a one-page PDF with blank text, a two-page PDF with text
Contents == { [corrupt |-> TRUE,  pages |-> <<>>],
              [corrupt |-> FALSE, pages |-> << <<" ">> >>],
              [corrupt |-> FALSE, pages |-> << <<"r">>, <<"s">> >>] }

Files == { [name |-> n, corrupt |-> c.corrupt, pages |-> c.pages] :
              n \in Names, c \in Contents }

\* every upload of at most MaxFiles files, and uploads of MaxResumes + 1 files
Uploads == UNION { [1..n -> Files] : n \in 0..MaxFiles }
             \cup { [k \in 1..(MaxResumes + 1) |-> f] : f \in Files }

JdFiles == {"None", "utf8", "undecodable"}

EnvValues == {"None", "", "value"}

\* outcomes of llm(messages) in the pipeline: an exception, "N/A"-like text,
\* " 5 ", "7.5", "150", "-2"
LlmOutcomes == { [raised |-> TRUE,  content |-> <<>>],
                 [raised |-> FALSE, content |-> <<"x">>],
                 [raised |-> FALSE, content |-> <<" ", "5", " ">>],
                 [raised |-> FALSE, content |-> <<"1", "5", "0">>],
                 [raised |-> FALSE, content |-> <<"-", "2">>] }

NoOut == [raised |-> FALSE, content |-> <<>>]
NoRet == [score |-> 0, warnings |-> <<>>, raised |-> FALSE]

ev(op, k, name, text) == [op |-> op, k |-> k, name |-> name, text |-> text]

-----------------------------------------------------------------------------
(* main() *)

pure_vars == <<llm_out, ret, sort_in, sort_out>>
env_vars == <<AZURE_OPENAI_API_KEY, AZURE_OPENAI_ENDPOINT, AZURE_OPENAI_DEPLOYMENT>>

Init ==
    /\ jd_file \in JdFiles
    /\ resume_files \in Uploads
    /\ pc = "start"
    /\ i = 1
    /\ resumes_texts = <<>>
    /\ AZURE_OPENAI_API_KEY = "unread"
    /\ AZURE_OPENAI_ENDPOINT = "unread"
    /\ AZURE_OPENAI_DEPLOYMENT = "unread"
    /\ idx = 1
    /\ scores = <<>>
    /\ ranked = <<>>
    /\ ui = <<>>
    /\ events = <<>>
    /\ llm_out = NoOut
    /\ ret = NoRet
    /\ sort_in = <<>>
    /\ sort_out = <<>>

\* lines 70-80: the upload check and the reading of the job description
Validate ==
    /\ pc = "start"
    /\ IF ~(jd_file # "None" /\ Len(resume_files) > 0)
       THEN pc' = "idle" /\ ui' = ui
       ELSE IF too_many(Len(resume_files))
       THEN /\ pc' = "rejected"
            /\ ui' = Append(ui, msg("warning", "too many resumes", ""))
       ELSE IF jd_file = "undecodable"
       THEN /\ pc' = "jd_error"
            /\ ui' = Append(ui, msg("error", "could not read job description", ""))
       ELSE pc' = "extract" /\ ui' = ui
    /\ UNCHANGED <<jd_file, resume_files, i, resumes_texts, env_vars,
                   idx, scores, ranked, events, pure_vars>>

\* lines 85-89: one iteration of the extraction loop
Extract ==
    /\ pc = "extract"
    /\ more_items(i, Len(resume_files))
    /\ LET file == resume_files[i]
           r    == extract_text_from_pdf(file)
           ui1  == ui \o r.errors
       IN  IF r.raised
           THEN /\ pc' = "crashed"
                /\ UNCHANGED <<i, resumes_texts, ui>>
                /\ events' = Append(events, ev("extract", i, file.name, <<>>))
           ELSE /\ pc' = pc
                /\ events' = Append(events, ev("extract", i, file.name, r.text))
                /\ ui' = IF strip(r.text) = <<>>
                         THEN Append(ui1, msg("warning", "no text extracted", file.name))
                         ELSE ui1
                /\ resumes_texts' = dict_set(resumes_texts, file.name, r.text)
                /\ i' = i + 1
    /\ UNCHANGED <<jd_file, resume_files, env_vars, idx, scores, ranked, pure_vars>>

\* lines 91-113: the empty check, the environment and the model's construction
CheckEnv ==
    /\ pc = "extract"
    /\ ~more_items(i, Len(resume_files))
    /\ IF Len(resumes_texts) = 0
       THEN /\ pc' = "no_texts"
            /\ ui' = Append(ui, msg("error", "no resume texts", ""))
            /\ UNCHANGED env_vars
       ELSE \E key \in EnvValues, endpoint \in EnvValues, deployment \in EnvValues :
            /\ AZURE_OPENAI_API_KEY' = key
            /\ AZURE_OPENAI_ENDPOINT' = endpoint
            /\ AZURE_OPENAI_DEPLOYMENT' = deployment
            /\ IF ~all_set(key, endpoint, deployment)
               THEN /\ pc' = "config_error"
                    /\ ui' = Append(ui, msg("error", "environment variables not set", ""))
               ELSE /\ \E constructed \in BOOLEAN :
                         pc' = IF constructed THEN "score" ELSE "crashed"
                    /\ ui' = ui
    /\ UNCHANGED <<jd_file, resume_files, i, resumes_texts,
                   idx, scores, ranked, events, pure_vars>>

\* lines 120-123: one iteration of the scoring loop
Score ==
    /\ pc = "score"
    /\ more_items(idx, Len(resumes_texts))
    /\ \E out \in LlmOutcomes :
         LET item == dict_item(resumes_texts, idx)
             r    == score_resume(out, item.name)
         IN  /\ events' = Append(events, ev("llm", idx, item.name, item.text))
             /\ ui' = ui \o r.warnings
             /\ IF r.raised
                THEN pc' = "crashed" /\ UNCHANGED <<scores, idx>>
                ELSE /\ pc' = pc
                     /\ scores' = Append(scores, [name |-> item.name, score |-> r.score])
                     /\ idx' = idx + 1
    /\ UNCHANGED <<jd_file, resume_files, i, resumes_texts, env_vars,
                   ranked, pure_vars>>

\* lines 126-131: the sort and the display of the ranked list
Rank ==
    /\ pc = "score"
    /\ ~more_items(idx, Len(resumes_texts))
    /\ LET s == sorted_desc(scores)
       IN  /\ scores' = s
           /\ ranked' = [k \in 1..Len(s) |->
                           [rank |-> k, name |-> s[k].name, score |-> s[k].score,
                            display |-> score_display(s[k].score)]]
    /\ pc' = "done"
    /\ UNCHANGED <<jd_file, resume_files, i, resumes_texts, env_vars,
                   idx, ui, events, pure_vars>>

Next == Validate \/ Extract \/ CheckEnv \/ Score \/ Rank

Spec == Init /\ [][Next]_vars

-----------------------------------------------------------------------------
(* score_resume on its own: every reply of at most MaxReplyLen characters  *)

Alphabet == Digits \cup {" ", "-", "+", ".", "x"}

Replies == UNION { [1..n -> Alphabet] : n \in 0..MaxReplyLen }

ScoreOutcomes == { [raised |-> FALSE, content |-> c] : c \in Replies }
                   \cup { [raised |-> TRUE, content |-> <<>>] }

ScoreNames == {"a.pdf", "b.pdf"}

InitScore ==
    /\ llm_out \in ScoreOutcomes
    /\ resumes_texts \in { <<[name |-> n, text |-> <<"r">>]>> : n \in ScoreNames }
    /\ pc = "call"
    /\ jd_file = "utf8"
    /\ resume_files = <<>>
    /\ i = 1
    /\ AZURE_OPENAI_API_KEY = "value"
    /\ AZURE_OPENAI_ENDPOINT = "value"
    /\ AZURE_OPENAI_DEPLOYMENT = "value"
    /\ idx = 1
    /\ scores = <<>>
    /\ ranked = <<>>
    /\ ui = <<>>
    /\ events = <<>>
    /\ ret = NoRet
    /\ sort_in = <<>>
    /\ sort_out = <<>>

ApplyScore ==
    /\ pc = "call"
    /\ LET r == score_resume(llm_out, dict_item(resumes_texts, idx).name)
       IN  /\ ret' = r
           /\ ui' = ui \o r.warnings
           /\ pc' = IF r.raised THEN "raised" ELSE "returned"
    /\ UNCHANGED <<jd_file, resume_files, i, resumes_texts, env_vars,
                   idx, scores, ranked, events, llm_out, sort_in, sort_out>>

NextScore == ApplyScore

SpecScore == InitScore /\ [][NextScore]_vars

-----------------------------------------------------------------------------
(* sorted() on its own: every list of at most MaxSortLen entries with      *)
(* distinct names (keys of a dict) and scores among -1, 0, 80, 95          *)

SortScores == {Sentinel * Scale, 0, 80 * Scale, 95 * Scale}

SortInputs ==
    UNION { { [k \in 1..n |-> [name |-> k, score |-> f[k]]] :
                f \in [1..n -> SortScores] } : n \in 0..MaxSortLen }

InitRank ==
    /\ sort_in \in SortInputs
    /\ sort_out = <<>>
    /\ pc = "sort"
    /\ jd_file = "utf8"
    /\ resume_files = <<>>
    /\ i = 1
    /\ resumes_texts = <<>>
    /\ AZURE_OPENAI_API_KEY = "value"
    /\ AZURE_OPENAI_ENDPOINT = "value"
    /\ AZURE_OPENAI_DEPLOYMENT = "value"
    /\ idx = 1
    /\ scores = <<>>
    /\ ranked = <<>>
    /\ ui = <<>>
    /\ events = <<>>
    /\ llm_out = NoOut
    /\ ret = NoRet

ApplySort ==
    /\ pc = "sort"
    /\ sort_out' = sorted_desc(sort_in)
    /\ pc' = "sorted"
    /\ UNCHANGED <<jd_file, resume_files, i, resumes_texts, env_vars,
                   idx, scores, ranked, ui, events, llm_out, ret, sort_in>>

NextRank == ApplySort

SpecRank == InitRank /\ [][NextRank]_vars

-----------------------------------------------------------------------------
(* Properties *)

ExtractPos == {p \in 1..Len(events) : events[p].op = "extract"}
LlmPos == {p \in 1..Len(events) : events[p].op = "llm"}

Missing(v) == v \in {"None", ""}

SomeMissing ==
    \/ Missing(AZURE_OPENAI_API_KEY)
    \/ Missing(AZURE_OPENAI_ENDPOINT)
    \/ Missing(AZURE_OPENAI_DEPLOYMENT)

AllPresent ==
    /\ AZURE_OPENAI_API_KEY = "value"
    /\ AZURE_OPENAI_ENDPOINT = "value"
    /\ AZURE_OPENAI_DEPLOYMENT = "value"

InUi(m) == \E p \in 1..Len(ui) : ui[p] = m

\* C1: a run that reaches the ranking has exactly one entry per submitted
\* file: as many entries as files, no file without an entry, no name twice.
C1_OneEntryPerFile ==
    pc = "done" =>
        /\ Len(ranked) = Len(resume_files)
        /\ \A k \in 1..Len(resume_files) :
              \E p \in 1..Len(ranked) : ranked[p].name = resume_files[k].name
        /\ \A p, q \in 1..Len(ranked) : ranked[p].name = ranked[q].name => p = q

C3_Interleaved ==
    \A q \in ExtractPos :
        events[q].k > 1 =>
            \E p \in LlmPos :
                p < q /\ events[p].name = resume_files[events[q].k - 1].name

\* C3 (amended): the files are extracted one at a time in submission order,
\* all of them before the first scoring call; the scoring calls follow one
\* at a time, one per filename, in the order in which the filenames were
\* first submitted, each with the text stored under that filename.
C3_TwoPhases ==
    LET n == Len(resume_files) IN
    /\ \A p \in ExtractPos :
          p <= n /\ events[p].k = p /\ events[p].name = resume_files[p].name
    /\ \A p \in LlmPos :
          /\ p > n
          /\ p - n <= Len(resumes_texts)
          /\ events[p].k = p - n
          /\ events[p].name = resumes_texts[p - n].name
          /\ events[p].text = resumes_texts[p - n].text
    /\ \A a, b \in 1..Len(resumes_texts) :
          a < b =>
            \E fa \in 1..n :
                /\ resume_files[fa].name = resumes_texts[a].name
                /\ \A fb \in 1..n :
                      resume_files[fb].name = resumes_texts[b].name => fa < fb

C3_Witness ==
    /\ pc = "done"
    /\ Len(resume_files) = 2
    /\ resume_files[1].name # resume_files[2].name
    /\ Len(events) = 4
    /\ events[2].op = "extract" /\ events[3].op = "llm"

\* C5: with more than 10 files nothing is extracted, scored or ranked; the
\* run (given a job description) stops with the warning as its only message.
C5_RejectsOverLimit ==
    Len(resume_files) > MaxResumes =>
        /\ events = <<>> /\ resumes_texts = <<>>
        /\ scores = <<>> /\ ranked = <<>>
        /\ pc \in {"start", "idle", "rejected"}
        /\ (pc # "start" /\ jd_file # "None") =>
              /\ pc = "rejected"
              /\ ui = <<msg("warning", "too many resumes", "")>>

C5_Witness ==
    /\ pc = "rejected"
    /\ Len(resume_files) = MaxResumes + 1
    /\ ui # <<>>

Names_of(s) == [k \in 1..Len(s) |-> s[k].name]

\* the list of section 8: A:80, B:-1, C:95, D:80 (A..D are entries 1..4)
ExampleScores ==
    << [name |-> 1, score |-> 80 * Scale], [name |-> 2, score |-> Sentinel * Scale],
       [name |-> 3, score |-> 95 * Scale], [name |-> 4, score |-> 80 * Scale] >>

\* C4: the sorted list is a permutation of the collected entries, scores
\* never increase along it, no valid score comes after a -1, and entries
\* with equal scores keep their order of collection (an entry's name is its
\* position in the collected list); A:80, B:-1, C:95, D:80 gives C, A, D, B.
C4_StableDescending ==
    pc = "sorted" =>
        /\ Len(sort_out) = Len(sort_in)
        /\ \A k \in 1..Len(sort_in) :
              \E p \in 1..Len(sort_out) : sort_out[p] = sort_in[k]
        /\ \A p, q \in 1..Len(sort_out) :
              p < q =>
                /\ sort_out[p].score >= sort_out[q].score
                /\ sort_out[p].score = Sentinel * Scale
                      => sort_out[q].score = Sentinel * Scale
                /\ sort_out[p].score = sort_out[q].score
                      => sort_out[p].name < sort_out[q].name
        /\ sort_in = ExampleScores => Names_of(sort_out) = <<3, 1, 4, 2>>

C4_Witness ==
    /\ pc = "sorted"
    /\ sort_in = ExampleScores
    /\ Names_of(sort_out) = <<3, 1, 4, 2>>

Parsed == float(llm_out.content)

\* C6: a reply that parses as a number v gives v clamped into [0, 100]
\* (100 above 100, 0 below 0, v itself otherwise), never -1 and without a
\* warning; "150" gives 100, "-20" gives 0 and "73.5" gives 73.5.
C6_Clamped ==
    (pc = "returned" /\ ~llm_out.raised /\ Parsed.ok) =>
        /\ ret.score = IF Parsed.val > 100 * Scale THEN 100 * Scale
                       ELSE IF Parsed.val < 0 THEN 0
                       ELSE Parsed.val
        /\ ret.score >= 0 /\ ret.score <= 100 * Scale
        /\ ret.score # Sentinel * Scale
        /\ ret.warnings = <<>>
        /\ llm_out.content = <<"1", "5", "0">> => ret.score = 100 * Scale
        /\ llm_out.content = <<"-", "2", "0">> => ret.score = 0
        /\ llm_out.content = <<"7", "3", ".", "5">> => 10 * ret.score = 735 * Scale
        /\ llm_out.content = <<" ", "5", " ">> => ret.score = 5 * Scale
        /\ llm_out.content = <<".", "5">> => 10 * ret.score = 5 * Scale

C6_Witness ==
    /\ pc = "returned"
    /\ llm_out.content = <<"-", "2", "0">>
    /\ Parsed.ok /\ Parsed.val = (0 - 20) * Scale
    /\ ret.score = 0

\* replies that are not numbers whatever float() is: they hold the letter
\* x, or are blank, or a bare sign or dot, or have two dots or two signs
NotANumber(c) ==
    \/ \E k \in 1..Len(c) : c[k] = "x"
    \/ \A k \in 1..Len(c) : c[k] = " "
    \/ c \in {<<"-">>, <<".">>, <<"+">>, <<"-", ".">>}
    \/ Cardinality({k \in 1..Len(c) : c[k] = "."}) >= 2
    \/ Cardinality({k \in 1..Len(c) : c[k] \in {"-", "+"}}) >= 2
    \/ \E k \in 2..(Len(c) - 1) : c[k] = " " /\ c[k - 1] # " " /\ c[k + 1] # " "

\* C7: when the call raises or the trimmed reply is not a number,
\* score_resume returns exactly -1 with one warning that names the résumé
\* and raises nothing.
C7_SentinelOnFailure ==
    (pc # "call" /\ (llm_out.raised \/ ~Parsed.ok \/ NotANumber(llm_out.content))) =>
        /\ pc = "returned"
        /\ ~ret.raised
        /\ ret.score = Sentinel * Scale
        /\ ret.warnings = <<msg("warning", "could not score", resumes_texts[1].name)>>
        /\ ui = ret.warnings

C7_Witness ==
    /\ pc = "returned"
    /\ ~llm_out.raised
    /\ llm_out.content = <<"5", " ", "5">>
    /\ ret.score = Sentinel * Scale
    /\ Len(ui) = 1

\* C8: the model is called at most once per scored résumé, a failed call is
\* followed by the calls of the résumés after it, and the scoring loop is
\* only left for the ranking, with every stored résumé called exactly once.
C8_NoRetryNoAbort ==
    /\ \A p, q \in LlmPos : events[p].name = events[q].name => p = q
    /\ LlmPos # {} => pc \in {"score", "done"}
    /\ pc = "score" =>
          Cardinality(LlmPos) = idx - 1 /\ Len(scores) = idx - 1
    /\ pc = "done" =>
          /\ Cardinality(LlmPos) = Len(resumes_texts)
          /\ \A k \in 1..Len(resumes_texts) :
                \E p \in LlmPos : events[p].name = resumes_texts[k].name
    /\ (pc = "score" /\ idx <= Len(resumes_texts)) => ENABLED Score

C8_Witness ==
    /\ pc = "done"
    /\ Len(ranked) = 2
    /\ Cardinality(LlmPos) = 2
    /\ InUi(msg("warning", "could not score", events[Len(events) - 1].name))
    /\ ranked[1].score # Sentinel * Scale
    /\ ranked[1].name = events[Len(events)].name

\* C9: in a run that reaches the ranking, a corrupt file has produced an
\* error and the empty string; every file whose text is blank has a warning
\* with its name, a scoring call made with its name and its text, and an
\* entry in the ranking.
C9_EmptyTextStillScored ==
    pc = "done" =>
        \A k \in 1..Len(resume_files) :
            /\ resume_files[k].corrupt =>
                  /\ events[k].text = <<>>
                  /\ InUi(msg("error", "error reading pdf", ""))
            /\ strip(events[k].text) = <<>> =>
                  /\ InUi(msg("warning", "no text extracted", resume_files[k].name))
                  /\ \E p \in LlmPos :
                        /\ events[p].name = resume_files[k].name
                        /\ events[p].text = events[k].text
                  /\ \E p \in 1..Len(ranked) : ranked[p].name = resume_files[k].name

Terminal == pc \in {"idle", "rejected", "jd_error", "no_texts", "config_error",
                    "crashed", "done"}

====
